---- MODULE Spec2Model ----
(***************************************************************************)
(* A model of the sitemap crawl scheduler of mc_sitemap_tools/crawl.py:    *)
(* BaseCrawler, GNewsCrawlerFull and GNewsCrawler, driven by start() and   *)
(* visit_one().                                                            *)
(*                                                                         *)
(* Strings are sequences of tokens; each token stands for the run of       *)
(* characters it spells.  No token is a prefix of another, so comparing    *)
(* token by token in code-point order of the tokens (TokOrder) is Python's *)
(* string comparison, and `a in b` on strings is the search for a          *)
(* contiguous run of tokens.                                               *)
(*                                                                         *)
(* A preference is a Python float; the model counts it in hundredths       *)
(* (Units(1) is 1.0), so that 0.1 and -0.25 are integers.                  *)
(***************************************************************************)
EXTENDS Integers, Sequences, FiniteSets, TLC

VARIABLES
    cls,            \* which class the crawler is: "full", "gnews-full", "quick"
    max_depth,      \* constructor arguments
    max_results,
    home_page,      \* << >> stands for None, until start()
    add_unpublished,
    results,        \* list of Urlset
    to_visit,       \* list managed by heapq
    seen,           \* set of normalized urls
    get_robots,
    robots_urls,
    pages_visited,
    started,        \* self._started
    \* what the last call did (observation only, never read by the program)
    ret,            \* what the call returned or raised
    quota,          \* save() returned True in the call
    page,           \* the PageTuple the call popped, or NoPage
    fetched,        \* what sitemap_get/robots_sitemaps gave the call, or NoFetch
    added,          \* the PageTuples the call pushed, in order
    home_arg,       \* what start() was given, until the next call
    urlset_only,    \* the urlset_only the call passed to sitemap_get
    \* history of the crawler (observation only)
    pushes,         \* normalized url -> times pushed on to_visit
    pops,           \* normalized url -> times popped (and fetched)
    scored,         \* normalized url -> times page_pref was called for it
    discarded,      \* normalized urls that met a pref >= DISCARD_PREF
    saved_from,     \* for each entry of results, the PageTuple it came from
    ended,          \* visit_one returned DONE or FIN since the last start()
    starts          \* calls of start() so far

vars == << cls, max_depth, max_results, home_page, add_unpublished, results,
           to_visit, seen, get_robots, robots_urls, pages_visited, started,
           ret, quota, page, fetched, added, home_arg, urlset_only,
           pushes, pops, scored, discarded, saved_from, ended, starts >>

----------------------------------------------------------------------------
(* Bounds of the model *)

MaxDepthArg == 1        \* max_depth is drawn from 0..MaxDepthArg
MaxResultsArg == 2      \* max_results is drawn from 1..MaxResultsArg
MaxStarts == 2          \* start() is called at most this often
MaxVisits == 4          \* visit_one() counts at most this many pages
MaxSessionDepth == 4    \* max_depth of the one-session crawl: 0..MaxSessionDepth

----------------------------------------------------------------------------
(* Strings *)

TokOrder ==
    << " -> ", "-", ".html", ".xml", "/", "1999", "?", "NEWS", "google",
       "https://h.com", "news", "robots.txt", "sitemap", "sports",
       "unpub-gnews-paths", "unpub-index-paths", "video", "year=" >>

Rank(tok) == CHOOSE i \in 1..Len(TokOrder) : TokOrder[i] = tok

\* str.__lt__
RECURSIVE StrLess(_, _)
StrLess(a, b) ==
    IF b = << >> THEN FALSE
    ELSE IF a = << >> THEN TRUE
    ELSE IF Head(a) = Head(b) THEN StrLess(Tail(a), Tail(b))
    ELSE Rank(Head(a)) < Rank(Head(b))

\* str.lower, on one token and on a string
LowerTok(tok) == IF tok = "NEWS" THEN "news" ELSE tok

Lower(s) == [i \in 1..Len(s) |-> LowerTok(s[i])]

\* `sub in s` for strings
Contains(s, sub) ==
    \E i \in 0..(Len(s) - Len(sub)) :
        \A j \in 1..Len(sub) : s[i + j] = sub[j]

\* str.endswith
EndsWith(s, suffix) ==
    /\ Len(s) >= Len(suffix)
    /\ SubSeq(s, Len(s) - Len(suffix) + 1, Len(s)) = suffix

\* an optional float: None, or a value
None == << >>
Some(v) == << v >>

\* what `page` and `fetched` hold after a call that popped or fetched nothing
NoPage == [pref |-> 0, depth |-> -1, url |-> << >>, origin |-> << >>]
NoFetch == [kind |-> "nothing"]

Units(n) == 100 * n     \* the float n as a preference

----------------------------------------------------------------------------
(* discover.py: the tables of well-known paths, cut to the entries the     *)
(* token alphabet spells, in the order of the source                       *)

\* 'sitemap.xml', 'sitemap'
UNPUBLISHED_SITEMAP_INDEX_PATHS ==
    << << "sitemap", ".xml" >>, << "sitemap" >> >>

\* 'news-sitemap.xml', 'sitemap/news.xml'
UNPUBLISHED_GNEWS_SITEMAP_PATHS ==
    << << "news", "-", "sitemap", ".xml" >>,
       << "sitemap", "/", "news", ".xml" >> >>

Range(f) == {f[i] : i \in DOMAIN f}

----------------------------------------------------------------------------
(* crawl.py: constants *)

DISCARD == Units(10)
DISCARD_PREF == DISCARD
UNPUBLISHED_INDEX_PREF == Units(1)
TRY_UNPUBLISHED_INDEX_PATHS == FALSE
UNPUB_DEPTH == 1

\* GNewsCrawlerFull.UNPUBLISHED_GNEWS_SITEMAP_PREF = 0.0, GNewsCrawler's -0.25
UNPUBLISHED_GNEWS_SITEMAP_PREF == IF cls = "quick" THEN -25 ELSE 0

\* the alternatives of SKIP_RE the token alphabet spells: "year=" and a
\* year between non-digits, (^|\D)(1[89]|2[012])\d\d($|\D|[01]\d)
SKIP_RE == << << "year=" >>, << "1999" >> >>

\* "google-news", "googlenews", "news", ".html"
PREF_TOKENS ==
    << << << "google", "-", "news" >>, Units(-10) >>,
       << << "google", "news" >>, Units(-10) >>,
       << << "news" >>, Units(-5) >>,
       << << ".html" >>, DISCARD >> >>

SECTION_PREF == DISCARD \div 2

\* the entries of SECTIONS the token alphabet spells
SECTIONS == << << "sports" >>, << "video" >> >>

----------------------------------------------------------------------------
(* class PageTuple(NamedTuple): pref, depth, url, origin; tuples compare   *)
(* field by field in the order of declaration                              *)

PageTuple(pref, depth, url, origin) ==
    [pref |-> pref, depth |-> depth, url |-> url, origin |-> origin]

\* PageTuple with depth declared before pref (the order the author's note
\* says the code has flipped to and from)
PageLessDepthFirst(a, b) ==
    \/ a.depth < b.depth
    \/ /\ a.depth = b.depth
       /\ \/ a.pref < b.pref
          \/ /\ a.pref = b.pref
             /\ \/ StrLess(a.url, b.url)
                \/ /\ a.url = b.url
                   /\ StrLess(a.origin, b.origin)

\* PageTuple compared with the deeper page first
PageLessDeepFirst(a, b) ==
    \/ a.pref < b.pref
    \/ /\ a.pref = b.pref
       /\ \/ a.depth > b.depth
          \/ /\ a.depth = b.depth
             /\ \/ StrLess(a.url, b.url)
                \/ /\ a.url = b.url
                   /\ StrLess(a.origin, b.origin)

\* PageTuple compared with the url field in descending order
PageLessUrlDescending(a, b) ==
    \/ a.pref < b.pref
    \/ /\ a.pref = b.pref
       /\ \/ a.depth < b.depth
          \/ /\ a.depth = b.depth
             /\ \/ StrLess(b.url, a.url)
                \/ /\ a.url = b.url
                   /\ StrLess(a.origin, b.origin)

PageLess(a, b) ==
    \/ a.pref < b.pref
    \/ /\ a.pref = b.pref
       /\ \/ a.depth < b.depth
          \/ /\ a.depth = b.depth
             /\ \/ StrLess(a.url, b.url)
                \/ /\ a.url = b.url
                   /\ StrLess(a.origin, b.origin)

----------------------------------------------------------------------------
(* heapq, on a list held as a sequence; positions are Python's, from 0 *)

At(heap, pos) == heap[pos + 1]

Put(heap, pos, item) == [heap EXCEPT ![pos + 1] = item]

RECURSIVE siftdown_from(_, _, _, _)
siftdown_from(heap, startpos, pos, newitem) ==
    IF pos > startpos /\ PageLess(newitem, At(heap, (pos - 1) \div 2))
    THEN siftdown_from(Put(heap, pos, At(heap, (pos - 1) \div 2)),
                       startpos, (pos - 1) \div 2, newitem)
    ELSE Put(heap, pos, newitem)

siftdown(heap, startpos, pos) ==
    siftdown_from(heap, startpos, pos, At(heap, pos))

RECURSIVE siftup_from(_, _, _, _)
siftup_from(heap, startpos, pos, newitem) ==
    LET endpos == Len(heap)
        childpos == 2 * pos + 1
        rightpos == childpos + 1
        smaller == IF rightpos < endpos
                      /\ ~PageLess(At(heap, childpos), At(heap, rightpos))
                   THEN rightpos ELSE childpos
    IN  IF childpos < endpos
        THEN siftup_from(Put(heap, pos, At(heap, smaller)),
                         startpos, smaller, newitem)
        ELSE siftdown(Put(heap, pos, newitem), startpos, pos)

siftup(heap, pos) == siftup_from(heap, pos, pos, At(heap, pos))

heappush(heap, item) ==
    siftdown(Append(heap, item), 0, Len(heap))

\* list.pop() in place of heappop: the last item goes, not the first
heappop_rest_last(heap) == SubSeq(heap, 1, Len(heap) - 1)

\* the list heappop leaves, for a non-empty heap
heappop_rest(heap) ==
    LET lastelt == heap[Len(heap)]
        rest == SubSeq(heap, 1, Len(heap) - 1)
    IN  IF rest # << >> THEN siftup(Put(rest, 0, lastelt), 0) ELSE rest

\* the item heappop returns, for a non-empty heap
heappop_item(heap) == heap[1]

----------------------------------------------------------------------------
(* The site: the urls robots.txt and index pages may name, and what the    *)
(* fetches may give.  A fetch is an input of the step that makes it.       *)

Host == "https://h.com"

uMap    == << Host, "/", "sitemap", ".xml" >>
uNews   == << Host, "/", "news", ".xml" >>
uNEWS   == << Host, "/", "NEWS", ".xml" >>
uSports == << Host, "/", "sports", "video", "news", ".xml" >>

\* start(home_page): with and without the trailing "/"
HomePages == { << Host >>, << Host, "/" >> }

\* news_discoverer.robots_sitemaps: a list of urls, or a FETCH_EXCEPTIONS
RobotsOutcomes ==
    { [kind |-> "raise"] } \cup
    { [kind |-> "urls", urls |-> l] :
        l \in { << >>, << uMap >>, << uSports, uMap >> } }

\* news_discoverer.sitemap_get: a FETCH_EXCEPTIONS, None, an Index, a
\* Urlset with or without google news tags, or a sitemap of another type
SitemapOutcomes ==
    { [kind |-> "raise"], [kind |-> "none"], [kind |-> "other"] } \cup
    { [kind |-> "index", sub_sitemap_urls |-> l] :
        l \in { << uNEWS, uNews >>, << uSports, uMap, uNews >> } } \cup
    { [kind |-> "urlset", google_news_tags |-> b] : b \in BOOLEAN }

----------------------------------------------------------------------------
(* mcmetadata.feeds.normalize_url, as far as the site's urls go: it folds  *)
(* case, so uNEWS and uNews are one normalized url                         *)

normalize_url(url) == Lower(url)

AllUrls ==
    { uMap, uNews, uNEWS, uSports } \cup
    { << Host, "/" >> \o path :
        path \in Range(UNPUBLISHED_SITEMAP_INDEX_PATHS)
                 \cup Range(UNPUBLISHED_GNEWS_SITEMAP_PATHS) }

NUrls == { normalize_url(u) : u \in AllUrls }

----------------------------------------------------------------------------
(* urllib.parse.urlsplit: .path and .query of a url.  A url that starts    *)
(* with scheme and host has the rest as its path, from the "/" on; the     *)
(* query is what follows the first "?".                                    *)

FirstIndex(s, tok) ==
    IF \E i \in 1..Len(s) : s[i] = tok
    THEN CHOOSE i \in 1..Len(s) :
            s[i] = tok /\ \A j \in 1..(i - 1) : s[j] # tok
    ELSE 0

urlsplit(url) ==
    LET rest == IF url # << >> /\ Head(url) = Host THEN Tail(url) ELSE url
        q == FirstIndex(rest, "?")
    IN  IF q = 0
        THEN [path |-> rest, query |-> << >>]
        ELSE [path |-> SubSeq(rest, 1, q - 1),
              query |-> SubSeq(rest, q + 1, Len(rest))]

----------------------------------------------------------------------------
(* page_pref *)

\* for section in self.SECTIONS: if section in path: pref += SECTION_PREF
RECURSIVE section_pref(_, _)
section_pref(path, sections) ==
    IF sections = << >> THEN 0
    ELSE (IF Contains(path, Head(sections)) THEN SECTION_PREF ELSE 0)
         + section_pref(path, Tail(sections))

\* for tok, weight in self.PREF_TOKENS: if tok in path: pref += weight
RECURSIVE token_pref(_, _)
token_pref(path, tokens) ==
    IF tokens = << >> THEN 0
    ELSE (IF Contains(path, Head(tokens)[1]) THEN Head(tokens)[2] ELSE 0)
         + token_pref(path, Tail(tokens))

\* GNewsCrawler.page_pref without `if pref >= self.DISCARD_PREF: return pref`
gnews_page_pref_all_weights(url) ==
    LET u == urlsplit(url)
        path == IF u.query # << >>
                THEN Lower(u.path) \o << "?" >> \o Lower(u.query)
                ELSE Lower(u.path)
        pref == section_pref(path, SECTIONS)
    IN  IF u.path \in Range(UNPUBLISHED_GNEWS_SITEMAP_PATHS)
        THEN UNPUBLISHED_GNEWS_SITEMAP_PREF
        ELSE IF u.path \in Range(UNPUBLISHED_SITEMAP_INDEX_PATHS)
        THEN UNPUBLISHED_INDEX_PREF
        ELSE IF \E i \in DOMAIN SKIP_RE : Contains(path, SKIP_RE[i])
        THEN DISCARD_PREF
        ELSE pref + token_pref(path, PREF_TOKENS)

\* GNewsCrawler.page_pref
gnews_page_pref(url) ==
    LET u == urlsplit(url)
        path == IF u.query # << >>
                THEN Lower(u.path) \o << "?" >> \o Lower(u.query)
                ELSE Lower(u.path)
        pref == section_pref(path, SECTIONS)
    IN  IF u.path \in Range(UNPUBLISHED_GNEWS_SITEMAP_PATHS)
        THEN UNPUBLISHED_GNEWS_SITEMAP_PREF
        ELSE IF u.path \in Range(UNPUBLISHED_SITEMAP_INDEX_PATHS)
        THEN UNPUBLISHED_INDEX_PREF
        ELSE IF \E i \in DOMAIN SKIP_RE : Contains(path, SKIP_RE[i])
        THEN DISCARD_PREF
        ELSE IF pref >= DISCARD_PREF
        THEN pref
        ELSE pref + token_pref(path, PREF_TOKENS)

\* BaseCrawler.page_pref, which GNewsCrawlerFull inherits and GNewsCrawler
\* overrides
page_pref(url) == IF cls = "quick" THEN gnews_page_pref(url) ELSE 0

----------------------------------------------------------------------------
(* The part of the crawler _add_url works on, with the history it makes *)

Frontier ==
    [seen |-> seen, to_visit |-> to_visit, added |-> << >>,
     pushes |-> pushes, scored |-> scored, discarded |-> discarded]

\* _add_url without the test of `seen`
add_url_unchecked(st, depth, url, origin, pref) ==
    LET nurl == normalize_url(url)
        p == IF pref = None THEN page_pref(url) ELSE pref[1]
        new == PageTuple(p, depth, url, origin)
        st1 == [st EXCEPT !.seen = @ \cup {nurl},
                          !.scored[nurl] = IF pref = None THEN @ + 1 ELSE @]
    IN  IF p >= DISCARD_PREF
        THEN [st1 EXCEPT !.discarded = @ \cup {nurl}]
        ELSE [st1 EXCEPT !.to_visit = heappush(@, new),
                         !.added = Append(@, new),
                         !.pushes[nurl] = @ + 1]

\* _add_url with `self.seen = {nurl}` for `self.seen.add(nurl)`
add_url_forgetful(st, depth, url, origin, pref) ==
    LET nurl == normalize_url(url)
        p == IF pref = None THEN page_pref(url) ELSE pref[1]
        new == PageTuple(p, depth, url, origin)
        st1 == [st EXCEPT !.seen = {nurl},
                          !.scored[nurl] = IF pref = None THEN @ + 1 ELSE @]
    IN  IF nurl \notin st.seen
        THEN IF p >= DISCARD_PREF
             THEN [st1 EXCEPT !.discarded = @ \cup {nurl}]
             ELSE [st1 EXCEPT !.to_visit = heappush(@, new),
                              !.added = Append(@, new),
                              !.pushes[nurl] = @ + 1]
        ELSE st

\* _add_url that discards on pref > DISCARD_PREF only
add_url_strict(st, depth, url, origin, pref) ==
    LET nurl == normalize_url(url)
        p == IF pref = None THEN page_pref(url) ELSE pref[1]
        new == PageTuple(p, depth, url, origin)
        st1 == [st EXCEPT !.seen = @ \cup {nurl},
                          !.scored[nurl] = IF pref = None THEN @ + 1 ELSE @]
    IN  IF nurl \notin st.seen
        THEN IF p > DISCARD_PREF
             THEN [st1 EXCEPT !.discarded = @ \cup {nurl}]
             ELSE [st1 EXCEPT !.to_visit = heappush(@, new),
                              !.added = Append(@, new),
                              !.pushes[nurl] = @ + 1]
        ELSE st

\* BaseCrawler._add_url; pref is None when the caller passes none
add_url(st, depth, url, origin, pref) ==
    LET nurl == normalize_url(url)
        p == IF pref = None THEN page_pref(url) ELSE pref[1]
        new == PageTuple(p, depth, url, origin)
        st1 == [st EXCEPT !.seen = @ \cup {nurl},
                          !.scored[nurl] = IF pref = None THEN @ + 1 ELSE @]
    IN  IF nurl \notin st.seen
        THEN IF p >= DISCARD_PREF
             THEN [st1 EXCEPT !.discarded = @ \cup {nurl}]
             ELSE [st1 EXCEPT !.to_visit = heappush(@, new),
                              !.added = Append(@, new),
                              !.pushes[nurl] = @ + 1]
        ELSE st

\* BaseCrawler._add_list
RECURSIVE add_list(_, _, _, _, _, _)
add_list(st, depth, url_list, add_home_page, origin, pref) ==
    IF url_list = << >> THEN st
    ELSE LET url == IF add_home_page THEN home_page \o Head(url_list)
                    ELSE Head(url_list)
         IN  add_list(add_url(st, depth, url, origin, pref),
                      depth, Tail(url_list), add_home_page, origin, pref)

\* BaseCrawler.add_unpublished_paths
base_add_unpublished_paths(st) ==
    IF TRY_UNPUBLISHED_INDEX_PATHS
    THEN add_list(st, UNPUB_DEPTH, UNPUBLISHED_SITEMAP_INDEX_PATHS, TRUE,
                  << "unpub-index-paths" >>,
                  Some(UNPUBLISHED_INDEX_PREF + 10))
    ELSE st

\* GNewsCrawlerFull.add_unpublished_paths, which GNewsCrawler inherits
gnews_add_unpublished_paths(st) ==
    base_add_unpublished_paths(
        add_list(st, UNPUB_DEPTH, UNPUBLISHED_GNEWS_SITEMAP_PATHS, TRUE,
                 << "unpub-gnews-paths" >>,
                 Some(UNPUBLISHED_GNEWS_SITEMAP_PREF + 10)))

add_unpublished_paths(st) ==
    IF cls = "full" THEN base_add_unpublished_paths(st)
    ELSE gnews_add_unpublished_paths(st)

\* save with `self.results = [urls]` for `self.results.append(urls)`
base_save_replacing(res, urls) ==
    [results |-> << urls >>, quota |-> 1 >= max_results]

\* BaseCrawler.save: the new results and what save returns
base_save(res, urls) ==
    [results |-> Append(res, urls),
     quota |-> Len(Append(res, urls)) >= max_results]

\* GNewsCrawlerFull.save without the test of google_news_tags
gnews_save_unfiltered(res, urls) == base_save(res, urls)

\* GNewsCrawlerFull.save, which GNewsCrawler inherits
gnews_save(res, urls) ==
    IF urls.google_news_tags THEN base_save(res, urls)
    ELSE [results |-> res, quota |-> FALSE]

save(res, urls) ==
    IF cls = "full" THEN base_save(res, urls) ELSE gnews_save(res, urls)

\* the depth test off by one: `if page.depth <= self.max_depth`
expand_off_by_one(pg) == pg.depth <= max_depth

\* visit_one: `if page.depth + 1 <= self.max_depth`
expand(pg) == pg.depth + 1 <= max_depth

\* the children of an index put in at the depth of the page itself
add_children_same_depth(st, pg, sub_sitemap_urls) ==
    add_list(st, pg.depth, sub_sitemap_urls, FALSE,
             pg.origin \o << " -> " >> \o pg.url, None)

\* visit_one: the children of an index go in at page.depth + 1, under
\* the origin f"{page.origin} -> {url}"
add_children(st, pg, sub_sitemap_urls) ==
    add_list(st, pg.depth + 1, sub_sitemap_urls, FALSE,
             pg.origin \o << " -> " >> \o pg.url, None)

\* the hint off by one: `urlset_only=page.depth > self.max_depth`
urlset_only_off_by_one(pg) == pg.depth > max_depth

\* visit_one: `urlset_only=page.depth + 1 > self.max_depth`
urlset_only_hint(pg) == pg.depth + 1 > max_depth

\* visit_one: the robots.txt urls go in at depth 0; a FETCH_EXCEPTIONS from
\* robots_sitemaps is passed over
robots_seed(st, robots) ==
    IF robots.kind = "urls"
    THEN add_list(st, 0, robots.urls, FALSE, << "robots.txt" >>, None)
    ELSE st

\* visit_one: `if self.add_unpublished: self.add_unpublished_paths()`
fallback_seed(st) ==
    IF add_unpublished THEN add_unpublished_paths(st) ELSE st

\* the seeding with the fallback paths inside the try block, so that a
\* FETCH_EXCEPTIONS skips them too
bootstrap_in_try(st, robots) ==
    IF robots.kind = "urls" THEN fallback_seed(robots_seed(st, robots))
    ELSE st

\* visit_one, the get_robots branch: what it does to seen and to_visit
bootstrap(st, robots) == fallback_seed(robots_seed(st, robots))

\* start() that stores home_page as given
with_slash_as_given(home) == home

\* start: `if not home_page.endswith("/"): home_page += "/"`
with_slash(home) ==
    IF EndsWith(home, << "/" >>) THEN home ELSE home \o << "/" >>

\* visit_one looking at the list before it looks at what save returned
visit_result_list_first(saved, left) ==
    IF Len(left) > 0 THEN "more"
    ELSE IF saved THEN "done"
    ELSE "fin"

\* visit_one with `len(self.to_visit) >= 0` for `len(self.to_visit) > 0`
visit_result_more_on_empty(saved, left) ==
    IF saved THEN "done"
    ELSE IF Len(left) >= 0 THEN "more"
    ELSE "fin"

\* visit_one: what it returns, given what save returned and the list left
visit_result(saved, left) ==
    IF saved THEN "done"
    ELSE IF Len(left) > 0 THEN "more"
    ELSE "fin"

----------------------------------------------------------------------------
(* The crawler *)

Classes == { "full", "gnews-full", "quick" }

\* BaseCrawler.__init__, with max_depth drawn from `depths`
Constructed(depths) ==
    /\ cls \in Classes
    /\ max_depth \in depths
    /\ max_results \in 1..MaxResultsArg
    /\ home_page = << >>          \* None
    /\ add_unpublished = FALSE
    /\ results = << >>
    /\ to_visit = << >>
    /\ seen = {}
    /\ get_robots = TRUE
    /\ robots_urls = << >>
    /\ pages_visited = 0
    /\ started = FALSE
    /\ ret = "init"
    /\ quota = FALSE
    /\ page = NoPage
    /\ fetched = NoFetch
    /\ added = << >>
    /\ home_arg = << >>
    /\ urlset_only = FALSE
    /\ pushes = [n \in NUrls |-> 0]
    /\ pops = [n \in NUrls |-> 0]
    /\ scored = [n \in NUrls |-> 0]
    /\ discarded = {}
    /\ saved_from = << >>
    /\ ended = FALSE
    /\ starts = 0

Init == Constructed(0..MaxDepthArg)

\* start() without `self.get_robots = True`
StartKeepsRobots(home, unpublished) ==
    /\ starts < MaxStarts
    /\ home_page' = with_slash(home)
    /\ home_arg' = home
    /\ urlset_only' = FALSE
    /\ add_unpublished' = unpublished
    /\ started' = TRUE
    /\ ret' = "start"
    /\ quota' = FALSE
    /\ page' = NoPage
    /\ fetched' = NoFetch
    /\ added' = << >>
    /\ starts' = starts + 1
    /\ ended' = FALSE
    /\ UNCHANGED << cls, max_depth, max_results, results, to_visit, seen,
                    get_robots, robots_urls, pages_visited, pushes, pops,
                    scored, discarded, saved_from >>

\* BaseCrawler.start
Start(home, unpublished) ==
    /\ starts < MaxStarts
    /\ home_page' = with_slash(home)
    /\ home_arg' = home
    /\ urlset_only' = FALSE
    /\ add_unpublished' = unpublished
    /\ get_robots' = TRUE
    /\ started' = TRUE
    /\ ret' = "start"
    /\ quota' = FALSE
    /\ page' = NoPage
    /\ fetched' = NoFetch
    /\ added' = << >>
    /\ starts' = starts + 1
    /\ ended' = FALSE
    /\ UNCHANGED << cls, max_depth, max_results, results, to_visit, seen,
                    robots_urls, pages_visited, pushes, pops, scored,
                    discarded, saved_from >>

\* visit_one with `self.pages_visited += 1` before the test of _started
VisitNotStartedCounted ==
    /\ ~started
    /\ pages_visited < MaxVisits
    /\ pages_visited' = pages_visited + 1
    /\ ret' = "CrawlerException"
    /\ quota' = FALSE
    /\ page' = NoPage
    /\ fetched' = NoFetch
    /\ added' = << >>
    /\ home_arg' = << >>
    /\ urlset_only' = FALSE
    /\ UNCHANGED << cls, max_depth, max_results, home_page, add_unpublished,
                    results, to_visit, seen, get_robots, robots_urls,
                    started, pushes, pops, scored, discarded, saved_from,
                    ended, starts >>

\* visit_one on a crawler that is not started: raise CrawlerException
VisitNotStarted ==
    /\ ~started
    /\ ret' = "CrawlerException"
    /\ quota' = FALSE
    /\ page' = NoPage
    /\ fetched' = NoFetch
    /\ added' = << >>
    /\ home_arg' = << >>
    /\ urlset_only' = FALSE
    /\ UNCHANGED << cls, max_depth, max_results, home_page, add_unpublished,
                    results, to_visit, seen, get_robots, robots_urls,
                    pages_visited, started, pushes, pops, scored, discarded,
                    saved_from, ended, starts >>

\* visit_one, the get_robots branch
BootstrapCall(robots) ==
    /\ started
    /\ get_robots
    /\ LET st2 == bootstrap(Frontier, robots)
           result == visit_result(FALSE, st2.to_visit)
       IN  /\ pages_visited' = pages_visited + 1
           /\ robots_urls' = IF robots.kind = "urls" THEN robots.urls
                             ELSE robots_urls
           /\ get_robots' = FALSE
           /\ seen' = st2.seen
           /\ to_visit' = st2.to_visit
           /\ added' = st2.added
           /\ pushes' = st2.pushes
           /\ scored' = st2.scored
           /\ discarded' = st2.discarded
           /\ started' = IF result = "fin" THEN FALSE ELSE started
           /\ ret' = result
           /\ ended' = (ended \/ result # "more")
    /\ quota' = FALSE
    /\ page' = NoPage
    /\ fetched' = robots
    /\ home_arg' = << >>
    /\ urlset_only' = FALSE
    /\ UNCHANGED << cls, max_depth, max_results, home_page, add_unpublished,
                    results, pops, saved_from, starts >>

VisitRobots(robots) == pages_visited < MaxVisits /\ BootstrapCall(robots)

\* visit_one, the other branch, on an empty list: heappop raises IndexError
VisitEmpty ==
    /\ started
    /\ ~get_robots
    /\ to_visit = << >>
    /\ pages_visited < MaxVisits
    /\ pages_visited' = pages_visited + 1
    /\ ret' = "IndexError"
    /\ quota' = FALSE
    /\ page' = NoPage
    /\ fetched' = NoFetch
    /\ added' = << >>
    /\ home_arg' = << >>
    /\ urlset_only' = FALSE
    /\ UNCHANGED << cls, max_depth, max_results, home_page, add_unpublished,
                    results, to_visit, seen, get_robots, robots_urls, started,
                    pushes, pops, scored, discarded, saved_from, ended,
                    starts >>

\* visit_one, the other branch: pop a page, fetch it, expand or save it
PageCall(sitemap) ==
    /\ started
    /\ ~get_robots
    /\ to_visit # << >>
    /\ LET pg == heappop_item(to_visit)
           st0 == [Frontier EXCEPT !.to_visit = heappop_rest(to_visit)]
           st1 == IF sitemap.kind = "index" /\ expand(pg)
                  THEN add_children(st0, pg, sitemap.sub_sitemap_urls)
                  ELSE st0
           saved == IF sitemap.kind = "urlset"
                    THEN save(results,
                              [url |-> pg.url,
                               google_news_tags |-> sitemap.google_news_tags])
                    ELSE [results |-> results, quota |-> FALSE]
           result == visit_result(saved.quota, st1.to_visit)
       IN  /\ pages_visited' = pages_visited + 1
           /\ page' = pg
           /\ urlset_only' = urlset_only_hint(pg)
           /\ pops' = [pops EXCEPT ![normalize_url(pg.url)] = @ + 1]
           /\ seen' = st1.seen
           /\ to_visit' = st1.to_visit
           /\ added' = st1.added
           /\ pushes' = st1.pushes
           /\ scored' = st1.scored
           /\ discarded' = st1.discarded
           /\ results' = saved.results
           /\ saved_from' = IF saved.results # results
                            THEN Append(saved_from, pg) ELSE saved_from
           /\ quota' = saved.quota
           /\ started' = IF result = "fin" THEN FALSE ELSE started
           /\ ret' = result
           /\ ended' = (ended \/ result # "more")
    /\ fetched' = sitemap
    /\ home_arg' = << >>
    /\ UNCHANGED << cls, max_depth, max_results, home_page, add_unpublished,
                    get_robots, robots_urls, starts >>

VisitPage(sitemap) == pages_visited < MaxVisits /\ PageCall(sitemap)

Next ==
    \/ \E home \in HomePages, unpublished \in BOOLEAN :
            Start(home, unpublished)
    \/ VisitNotStarted
    \/ \E robots \in RobotsOutcomes : VisitRobots(robots)
    \/ VisitEmpty
    \/ \E sitemap \in SitemapOutcomes : VisitPage(sitemap)

Spec == Init /\ [][Next]_vars

----------------------------------------------------------------------------
(* One session, as the loop of __main__ runs it for one home page:        *)
(*     crawler.start(home); while crawler.visit_one() == MORE: pass       *)
(* The loop calls visit_one until it returns something else, so the call  *)
(* that is due is always made.                                            *)

SessionInit == Constructed(0..MaxSessionDepth)

SessionStart(home, unpublished) == ret = "init" /\ Start(home, unpublished)

SessionBootstrap(robots) == ret = "start" /\ BootstrapCall(robots)

SessionPage(sitemap) == ret = "more" /\ PageCall(sitemap)

SessionNext ==
    \/ \E home \in HomePages, unpublished \in BOOLEAN :
            SessionStart(home, unpublished)
    \/ \E robots \in RobotsOutcomes : SessionBootstrap(robots)
    \/ \E sitemap \in SitemapOutcomes : SessionPage(sitemap)

SessionSpec == SessionInit /\ [][SessionNext]_vars /\ WF_vars(SessionNext)

----------------------------------------------------------------------------
(* Properties *)

InFrontier == Range(to_visit)

\* a call of visit_one that popped a page
Visited == page # NoPage

\* C1: no normalized url is pushed on to_visit more than once, and so none
\* is popped and fetched more than once, however often it is rediscovered.
\* (seen is never cleared, so this holds across start() calls too.)
NoUrlPushedTwice ==
    \A n \in NUrls : pushes[n] <= 1 /\ pops[n] <= 1

\* C1 witness: an expanded index named a url whose normal form was already
\* seen (no url is discarded in the full crawl, so a child not pushed was
\* skipped), and that normal form was pushed once and popped once.
RediscoveredUrl ==
    /\ cls = "full"
    /\ Visited
    /\ fetched.kind = "index"
    /\ expand(page)
    /\ Len(added) < Len(fetched.sub_sitemap_urls)
    /\ \E i \in DOMAIN fetched.sub_sitemap_urls :
          LET n == normalize_url(fetched.sub_sitemap_urls[i])
          IN  pushes[n] = 1 /\ pops[n] = 1

\* C2 as stated: len(results) <= max_results in every reachable state.
\* The code appends before it compares, never clears results, and pops on
\* after DONE, so this fails.
ResultsWithinMax == Len(results) <= max_results

\* C3 as stated: when start() returns, seen and to_visit are empty and the
\* counters are reset.  start() sets home_page, add_unpublished, get_robots
\* and _started only, so this fails for a crawler that has crawled.
StartClears ==
    ret = "start" =>
        /\ seen = {}
        /\ to_visit = << >>
        /\ pages_visited = 0
        /\ results = << >>

\* no index page was expanded: nothing in to_visit or results came from
\* an index, and the last call pushed nothing if it fetched a page
NoIndexExpanded ==
    /\ Visited => added = << >>
    /\ \A pg \in InFrontier \cup Range(saved_from) :
          ~Contains(pg.origin, << " -> " >>)

\* C4 as stated: with max_depth = 0 no index is expanded and every Urlset
\* in results came from a candidate of depth 0.  The fallback paths go in
\* at UNPUB_DEPTH = 1, so the second half fails for the gnews classes.
DepthZeroCollectsDepthZero ==
    max_depth = 0 =>
        /\ NoIndexExpanded
        /\ \A i \in DOMAIN saved_from : saved_from[i].depth = 0

\* C4 amended: with max_depth = 0 no index is expanded, and every Urlset in
\* results came from a bootstrap seed: a robots.txt url at depth 0 or a
\* fallback path at depth UNPUB_DEPTH.
DepthZeroCollectsSeeds ==
    max_depth = 0 =>
        /\ NoIndexExpanded
        /\ \A i \in DOMAIN saved_from :
              \/ /\ saved_from[i].origin = << "robots.txt" >>
                 /\ saved_from[i].depth = 0
              \/ /\ saved_from[i].origin \in { << "unpub-gnews-paths" >>,
                                               << "unpub-index-paths" >> }
                 /\ saved_from[i].depth = UNPUB_DEPTH

\* C4 witness: with max_depth = 0 a Urlset was saved from a fallback path
\* and then an index was fetched from a robots.txt url, and not expanded.
DepthZeroIndexMet ==
    /\ max_depth = 0
    /\ Visited
    /\ fetched.kind = "index"
    /\ fetched.sub_sitemap_urls # << >>
    /\ page.depth = 0
    /\ \E i \in DOMAIN saved_from : saved_from[i].depth = UNPUB_DEPTH

\* C5: a visit_one that returns returns DONE iff save() signalled the
\* quota in that call, FIN iff to_visit is empty afterwards and save() did
\* not signal, and MORE otherwise.
StepResult ==
    ret \in { "done", "fin", "more" } =>
        /\ ret = "done" <=> quota
        /\ ret = "fin" <=> (to_visit = << >> /\ ~quota)
        /\ ret = "more" <=> (to_visit # << >> /\ ~quota)

\* C5 witness: DONE was returned with pages still to visit.
DoneWithPagesLeft ==
    /\ ret = "done"
    /\ quota
    /\ to_visit # << >>

\* C6: a url whose pref is >= DISCARD_PREF is in seen and never in
\* to_visit, and a url of the same normal form met later is neither scored
\* again nor pushed.
DiscardedNeverQueued ==
    /\ \A pg \in InFrontier :
          pg.pref < DISCARD_PREF /\ normalize_url(pg.url) \notin discarded
    /\ \A n \in discarded :
          n \in seen /\ pushes[n] = 0 /\ scored[n] <= 1

\* C6 witness: robots.txt named a url that was discarded, and an index
\* expanded later names it again.
DiscardedRediscovered ==
    /\ Visited
    /\ fetched.kind = "index"
    /\ expand(page)
    /\ \E i \in DOMAIN fetched.sub_sitemap_urls :
          /\ normalize_url(fetched.sub_sitemap_urls[i]) \in discarded
          /\ fetched.sub_sitemap_urls[i] \in Range(robots_urls)

\* C7: every child an expanded index pushes is at page.depth + 1, and
\* when page.depth + 1 > max_depth the call pushes nothing and leaves seen
\* as it was.
ChildDepth ==
    /\ [](Visited /\ fetched.kind = "index" =>
            /\ \A i \in DOMAIN added : added[i].depth = page.depth + 1
            /\ page.depth + 1 > max_depth => added = << >>)
    /\ [][(/\ pages_visited' = pages_visited + 1
           /\ page' # NoPage
           /\ fetched'.kind = "index"
           /\ page'.depth + 1 > max_depth)
          => (seen' = seen /\ pushes' = pushes)]_vars

\* C7 witness: a page that an index pushed at depth 1 turned out to be an
\* index of urls not yet seen, one level too deep.
ChildTooDeep ==
    /\ Visited
    /\ fetched.kind = "index"
    /\ Contains(page.origin, << " -> " >>)
    /\ page.depth = 1
    /\ page.depth + 1 > max_depth
    /\ \E i \in DOMAIN fetched.sub_sitemap_urls :
          normalize_url(fetched.sub_sitemap_urls[i]) \notin seen

\* (score, depth, url, origin) ascending, written out
LexLeq(a, b) ==
    IF a.pref # b.pref THEN a.pref < b.pref
    ELSE IF a.depth # b.depth THEN a.depth < b.depth
    ELSE IF a.url # b.url THEN StrLess(a.url, b.url)
    ELSE a.origin = b.origin \/ StrLess(a.origin, b.origin)

\* C8: the page a call pops is in to_visit and is least in it by (score,
\* depth, url, origin); of two with equal score the shallower goes first.
PopsMinimum ==
    [][(pages_visited' = pages_visited + 1 /\ page' # NoPage)
       => /\ page' \in InFrontier
          /\ \A pg \in InFrontier : LexLeq(page', pg)]_vars

\* C8 witness: the page popped left behind one of the same score, deeper.
ShallowerPoppedFirst ==
    /\ Visited
    /\ \E pg \in InFrontier :
          pg.pref = page.pref /\ pg.depth > page.depth

\* C9: in the gnews classes a Urlset without google news tags leaves
\* results as they were, and the call does not return DONE.
UntaggedNotSaved ==
    [][(/\ cls # "full"
        /\ pages_visited' = pages_visited + 1
        /\ fetched'.kind = "urlset"
        /\ ~fetched'.google_news_tags)
       => (results' = results /\ ~quota' /\ ret' # "done")]_vars

\* C9 witness: a gnews crawler one result short of max_results fetched a
\* Urlset without tags.
UntaggedAtQuota ==
    /\ cls # "full"
    /\ Visited
    /\ fetched.kind = "urlset"
    /\ ~fetched.google_news_tags
    /\ Len(results) + 1 = max_results

\* C10 as stated: once visit_one has returned DONE or FIN, no later call
\* pops, fetches, pushes or appends until start() is called.  DONE leaves
\* _started set, so the next call pops and fetches.
StopsAfterEnd ==
    [][(ended /\ ret' # "start")
       => /\ to_visit' = to_visit
          /\ results' = results
          /\ pops' = pops
          /\ pushes' = pushes]_vars

\* a call of visit_one that took the get_robots branch
Bootstrapped == page = NoPage /\ fetched # NoFetch

FallbackOrigins == { << "unpub-gnews-paths" >>, << "unpub-index-paths" >> }

\* C11: visit_one on a crawler that is not started (never started, or
\* after FIN) raises CrawlerException, which is no fetch failure, and
\* leaves pages_visited, seen, to_visit and results as they were.
NotStartedRaises ==
    [][(~started /\ starts' = starts)
       => /\ ret' = "CrawlerException"
          /\ fetched' = NoFetch
          /\ pages_visited' = pages_visited
          /\ seen' = seen
          /\ to_visit' = to_visit
          /\ results' = results
          /\ ~started']_vars

\* C11 witness: the call was made after FIN, on a crawler that has crawled.
RaisedAfterFin ==
    /\ ret = "CrawlerException"
    /\ ended
    /\ pages_visited > 1
    /\ seen # {}

\* C12: a transport failure of the robots.txt fetch does not abort the
\* bootstrap: the call returns MORE or FIN, pushes no robots.txt url,
\* seeds the fallback paths the crawler is configured with, and leaves
\* get_robots False.
RobotsFailureSurvived ==
    (Bootstrapped /\ fetched.kind = "raise") =>
        /\ ret \in { "more", "fin" }
        /\ ~get_robots
        /\ \A i \in DOMAIN added : added[i].origin # << "robots.txt" >>
        /\ (add_unpublished /\ cls # "full") =>
              \A i \in DOMAIN UNPUBLISHED_GNEWS_SITEMAP_PATHS :
                  normalize_url(home_page \o UNPUBLISHED_GNEWS_SITEMAP_PATHS[i])
                      \in seen
        /\ (add_unpublished /\ TRY_UNPUBLISHED_INDEX_PATHS) =>
              \A i \in DOMAIN UNPUBLISHED_SITEMAP_INDEX_PATHS :
                  normalize_url(home_page \o UNPUBLISHED_SITEMAP_INDEX_PATHS[i])
                      \in seen

\* C12 witness: the fetch failed and the fallback paths were pushed.
RobotsFailedFallbackSeeded ==
    /\ Bootstrapped
    /\ fetched.kind = "raise"
    /\ Len(added) = Len(UNPUBLISHED_GNEWS_SITEMAP_PATHS)
    /\ \A i \in DOMAIN added : added[i].origin = << "unpub-gnews-paths" >>
    /\ ret = "more"

\* C13: start() stores a home page given without a trailing "/" with one
\* "/" appended and one given with it unchanged, so every fallback
\* candidate the bootstrap pushes is what start() was given, "/" (once),
\* and the path.
HomePageSlash ==
    [][(ret' = "start" =>
            /\ EndsWith(home_arg', << "/" >>) => home_page' = home_arg'
            /\ ~EndsWith(home_arg', << "/" >>) =>
                  home_page' = home_arg' \o << "/" >>)
       /\ ((ret = "start" /\ starts' = starts) =>
            \A i \in DOMAIN added' :
                added'[i].origin \in FallbackOrigins =>
                    \E path \in Range(UNPUBLISHED_GNEWS_SITEMAP_PATHS)
                            \cup Range(UNPUBLISHED_SITEMAP_INDEX_PATHS) :
                        added'[i].url =
                            IF EndsWith(home_arg, << "/" >>)
                            THEN home_arg \o path
                            ELSE home_arg \o << "/" >> \o path)]_vars

\* C13 witness: start() was given a home page without "/", on a crawler
\* whose bootstrap will push every fallback path it has.
StartedWithoutSlash ==
    /\ ret = "start"
    /\ home_arg = << Host >>
    /\ home_page = << Host, "/" >>
    /\ add_unpublished
    /\ cls # "full"
    /\ seen = {}

\* C14: seen after a call of visit_one is a superset of seen before it.
SeenGrows == [][starts' = starts => seen \subseteq seen']_vars

\* C14 witness: an index was expanded into a seen set that already held
\* other urls.
SeenGrew ==
    /\ Visited
    /\ fetched.kind = "index"
    /\ added # << >>
    /\ Cardinality(seen) > Len(added) + 1

IsPrefix(a, b) == Len(a) <= Len(b) /\ SubSeq(b, 1, Len(a)) = a

\* C15: after any call of visit_one or start the results before are a
\* prefix of the results after.
ResultsGrow == [][IsPrefix(results, results')]_vars

\* C15 witness: a second session added a result to those of the first.
ResultsKeptOverStart ==
    /\ starts = 2
    /\ Visited
    /\ Len(results) = 2
    /\ ret = "done"

\* C16: in the full crawl the depths of the pages popped one after another
\* in a session never decrease.  (The page calls of a session follow one
\* another: only a start() or a raising call comes between two of them,
\* and after a raising call no page is popped until start().)
BreadthFirst ==
    [][(cls = "full" /\ page # NoPage /\ page' # NoPage)
       => page'.depth >= page.depth]_vars

\* C16 witness: the full crawl popped a page of depth 1 and has more of
\* that depth to pop.
DeeperPopped ==
    /\ cls = "full"
    /\ Visited
    /\ page.depth = 1
    /\ \E pg \in InFrontier : pg.depth = 1

\* C17, as the claim has it: in the full crawl, of two pages of one depth
\* that are both on to_visit, the one pushed earlier is popped earlier.
\* `added` lists the pages the call before pushed, in the order it pushed
\* them; the formula speaks of the pairs of pages of that list.
FifoWithinDepth ==
    [][(cls = "full" /\ starts' = starts /\ page' # NoPage)
       => \A i, j \in DOMAIN added :
              (/\ i < j
               /\ added[i].depth = added[j].depth
               /\ added[i] \in Range(to_visit)
               /\ added[j] \in Range(to_visit))
              => page' # added[j]]_vars

\* C17, amended: in the full crawl, of the pages of one depth on to_visit
\* the one popped is the one whose url is least in string order, whatever
\* the order they were pushed in.
UrlOrderWithinDepth ==
    [][(cls = "full" /\ starts' = starts /\ page' # NoPage)
       => /\ page' \in Range(to_visit)
          /\ \A pg \in Range(to_visit) :
                (pg.depth = page'.depth /\ pg # page')
                => StrLess(page'.url, pg.url)]_vars

\* C17 witness: robots.txt listed two urls, and the second was popped with
\* the first still on to_visit.
LaterPushedPoppedFirst ==
    /\ cls = "full"
    /\ Visited
    /\ Len(robots_urls) = 2
    /\ page.url = robots_urls[2]
    /\ page.origin = << "robots.txt" >>
    /\ \E pg \in InFrontier :
          /\ pg.url = robots_urls[1]
          /\ pg.depth = page.depth

\* C18: the first visit_one after start() is the bootstrap: it pops
\* nothing, fetches no sitemap, and counts one page; no later call of the
\* session fetches robots.txt or seeds the fallback paths.
BootstrapOnce ==
    [][(starts' = starts /\ started)
       => IF ret = "start"
          THEN /\ page' = NoPage
               /\ fetched' \in RobotsOutcomes
               /\ pops' = pops
               /\ results' = results
               /\ pages_visited' = pages_visited + 1
          ELSE /\ get_robots' = get_robots
               /\ robots_urls' = robots_urls
               /\ ~(page' = NoPage /\ fetched' # NoFetch)
               /\ \A i \in DOMAIN added' :
                     added'[i].origin \notin FallbackOrigins
                        \cup { << "robots.txt" >> }]_vars

\* C18 witness: a second session has bootstrapped and gone on to a page.
SecondSessionVisits ==
    /\ starts = 2
    /\ Visited
    /\ ~get_robots
    /\ pages_visited = 4

\* C19: when the fetch of the popped page fails recoverably (an exception
\* of FETCH_EXCEPTIONS, or None), the call takes that page and no other
\* off to_visit, leaves seen and results as they were, and returns MORE if
\* to_visit is not empty and FIN if it is.
FetchFailureSkipsPage ==
    [][(starts' = starts /\ page' # NoPage
        /\ fetched'.kind \in { "raise", "none" })
       => /\ Range(to_visit') = Range(to_visit) \ { page' }
          /\ Len(to_visit') = Len(to_visit) - 1
          /\ page' \in Range(to_visit)
          /\ seen' = seen
          /\ results' = results
          /\ ret' = IF to_visit' # << >> THEN "more" ELSE "fin"]_vars

\* C19 witness: the fetch raised with other pages left to visit.
FetchFailedPagesLeft ==
    /\ Visited
    /\ fetched.kind = "raise"
    /\ Len(to_visit) >= 2
    /\ ret = "more"

\* C20: the urlset_only passed for a popped page is true exactly when
\* page.depth + 1 > max_depth; it is never true in a call that pushes
\* children, and when it is false an index is expanded.
HintMatchesExpansion ==
    Visited =>
        /\ urlset_only <=> page.depth + 1 > max_depth
        /\ ~(urlset_only /\ added # << >>)
        /\ (~urlset_only /\ fetched.kind = "index") =>
              /\ \A i \in DOMAIN fetched.sub_sitemap_urls :
                    normalize_url(fetched.sub_sitemap_urls[i]) \in seen
              /\ \A i \in DOMAIN added : added[i].depth = page.depth + 1

\* C20 witness: the hint was false and the index fetched was expanded.
HintFalseExpanded ==
    /\ Visited
    /\ ~urlset_only
    /\ fetched.kind = "index"
    /\ added # << >>

\* C21: in the heuristic crawler, page_pref of home_page + p is
\* UNPUBLISHED_GNEWS_SITEMAP_PREF for every p of the table of gnews sitemap
\* paths, and UNPUBLISHED_INDEX_PREF for every p of the table of index
\* paths.
KnownPathScore ==
    (cls = "quick" /\ started) =>
        /\ \A i \in DOMAIN UNPUBLISHED_GNEWS_SITEMAP_PATHS :
              page_pref(home_page \o UNPUBLISHED_GNEWS_SITEMAP_PATHS[i])
                  = UNPUBLISHED_GNEWS_SITEMAP_PREF
        /\ \A i \in DOMAIN UNPUBLISHED_SITEMAP_INDEX_PATHS :
              page_pref(home_page \o UNPUBLISHED_SITEMAP_INDEX_PATHS[i])
                  = UNPUBLISHED_INDEX_PREF

\* what page_pref works on once the known paths are past: the lower-cased
\* path, with "?" and the lower-cased query if there is one
ScoredPath(url) ==
    LET u == urlsplit(url)
    IN  IF u.query # << >>
        THEN Lower(u.path) \o << "?" >> \o Lower(u.query)
        ELSE Lower(u.path)

\* the known-path rules and the skip patterns leave the url undecided
Undecided(url) ==
    /\ urlsplit(url).path \notin Range(UNPUBLISHED_GNEWS_SITEMAP_PATHS)
    /\ urlsplit(url).path \notin Range(UNPUBLISHED_SITEMAP_INDEX_PATHS)
    /\ \A i \in DOMAIN SKIP_RE : ~Contains(ScoredPath(url), SKIP_RE[i])

\* SECTION_PREF for each section keyword the path holds
SectionTotal(url) ==
    SECTION_PREF
    * Cardinality({ i \in DOMAIN SECTIONS :
                      Contains(ScoredPath(url), SECTIONS[i]) })

\* the weight of the i-th token of PREF_TOKENS if the path holds it
Weight(url, i) ==
    IF Contains(ScoredPath(url), PREF_TOKENS[i][1])
    THEN PREF_TOKENS[i][2] ELSE 0

TokenTotal(url) ==
    Weight(url, 1) + Weight(url, 2) + Weight(url, 3) + Weight(url, 4)

SessionTerminates ==
    /\ [](pages_visited <= 1 + Cardinality(seen))
    /\ <>(ret \in { "done", "fin" })

\* C23 witness: a session that met an index naming itself and urls seen
\* before went through every url it saw and ended with FIN at the bound.
SessionEndedAtBound ==
    /\ ret = "fin"
    /\ fetched.kind = "index"
    /\ added = << >>
    /\ pages_visited = 1 + Cardinality(seen)
    /\ Cardinality(seen) >= 3
    /\ page.depth < max_depth

\* C24: a call of visit_one made right after start() or after a call that
\* returned MORE never pops an empty to_visit: after start() it is the
\* bootstrap, which pops nothing, and after MORE to_visit is not empty and
\* the page popped is one of its pages; the call raises neither IndexError
\* nor CrawlerException.
NoPopFromEmpty ==
    [][(ret \in { "start", "more" } /\ starts' = starts)
       => /\ ret' \in { "more", "done", "fin" }
          /\ ret = "start" => page' = NoPage
          /\ ret = "more" => (to_visit # << >> /\ page' \in Range(to_visit))]_vars

\* C24 witness: in a session that has not ended, a call made after MORE
\* popped a page and left one page, and returned MORE again.
PoppedWithOneLeft ==
    /\ ~ended
    /\ ret = "more"
    /\ Visited
    /\ Len(to_visit) = 1
    /\ pages_visited >= 3
====
